---- MODULE Spec2Model ----
(***************************************************************************)
(* Model of convert_movies.py: the conversion of a list of source movie    *)
(* records into output records with a unique slug, integer years and a     *)
(* list of transliterated director names.                                  *)
(*                                                                         *)
(* A Python string is a sequence of characters.  An ASCII character is the *)
(* one-character string itself; a non-ASCII code point is written by its   *)
(* name, "U0418" for U+0418.                                               *)
(***************************************************************************)
EXTENDS Integers, Sequences, FiniteSets, TLC

VARIABLES source, idx, movies, slug_counts, pc, fn, arg, ret

vars == <<source, idx, movies, slug_counts, pc, fn, arg, ret>>

pipeline_vars == <<source, idx, movies, slug_counts, pc>>

call_vars == <<fn, arg, ret>>

-----------------------------------------------------------------------------
(* Characters *)

Lower == {"a", "b", "c", "d", "e", "f", "g", "h",
    "i", "j", "k", "l", "m", "n", "o", "p",
    "q", "r", "s", "t", "u", "v", "w", "x",
    "y", "z"}

Upper == {"A", "B", "C", "D", "E", "F", "G", "H",
    "I", "J", "K", "L", "M", "N", "O", "P",
    "Q", "R", "S", "T", "U", "V", "W", "X",
    "Y", "Z"}

Digits == {"0", "1", "2", "3", "4", "5", "6", "7", "8", "9"}

DigitChars == <<"0", "1", "2", "3", "4", "5", "6", "7", "8", "9">>

(* str.lower() on an ASCII string *)
ToLower ==
    "A" :> "a" @@ "B" :> "b" @@ "C" :> "c" @@ "D" :> "d" @@ "E" :> "e" @@ "F" :> "f" @@
    "G" :> "g" @@ "H" :> "h" @@ "I" :> "i" @@ "J" :> "j" @@ "K" :> "k" @@ "L" :> "l" @@
    "M" :> "m" @@ "N" :> "n" @@ "O" :> "o" @@ "P" :> "p" @@ "Q" :> "q" @@ "R" :> "r" @@
    "S" :> "s" @@ "T" :> "t" @@ "U" :> "u" @@ "V" :> "v" @@ "W" :> "w" @@ "X" :> "x" @@
    "Y" :> "y" @@ "Z" :> "z"

(* the characters str.strip() removes, among the characters of the model *)
PyWhitespace == {" ", "\t", "\n", "\r", "U000B", "U00A0"}

(* the argument of part.strip(" \t\r\n.") *)
DirectorStripChars == {" ", "\t", "\r", "\n", "."}

(* unicodedata.normalize("NFKD", c).encode("ascii", "ignore") for the       *)
(* non-ASCII code points of the model: e-acute decomposes to e + U+0301,    *)
(* the no-break space to a space; Cyrillic letters have no ASCII part.      *)
NFKD_ASCII == "U00E9" :> <<"e">> @@ "U00A0" :> <<" ">>

CYRILLIC_MAP ==
    "U0410" :> <<"A">> @@ "U0430" :> <<"a">> @@
    "U0411" :> <<"B">> @@ "U0431" :> <<"b">> @@
    "U0412" :> <<"V">> @@ "U0432" :> <<"v">> @@
    "U0413" :> <<"G">> @@ "U0433" :> <<"g">> @@
    "U0414" :> <<"D">> @@ "U0434" :> <<"d">> @@
    "U0415" :> <<"E">> @@ "U0435" :> <<"e">> @@
    "U0401" :> <<"Y", "o">> @@ "U0451" :> <<"y", "o">> @@
    "U0416" :> <<"Z", "h">> @@ "U0436" :> <<"z", "h">> @@
    "U0417" :> <<"Z">> @@ "U0437" :> <<"z">> @@
    "U0418" :> <<"I">> @@ "U0438" :> <<"i">> @@
    "U0419" :> <<"Y">> @@ "U0439" :> <<"y">> @@
    "U041A" :> <<"K">> @@ "U043A" :> <<"k">> @@
    "U041B" :> <<"L">> @@ "U043B" :> <<"l">> @@
    "U041C" :> <<"M">> @@ "U043C" :> <<"m">> @@
    "U041D" :> <<"N">> @@ "U043D" :> <<"n">> @@
    "U041E" :> <<"O">> @@ "U043E" :> <<"o">> @@
    "U041F" :> <<"P">> @@ "U043F" :> <<"p">> @@
    "U0420" :> <<"R">> @@ "U0440" :> <<"r">> @@
    "U0421" :> <<"S">> @@ "U0441" :> <<"s">> @@
    "U0422" :> <<"T">> @@ "U0442" :> <<"t">> @@
    "U0423" :> <<"U">> @@ "U0443" :> <<"u">> @@
    "U0424" :> <<"F">> @@ "U0444" :> <<"f">> @@
    "U0425" :> <<"K", "h">> @@ "U0445" :> <<"k", "h">> @@
    "U0426" :> <<"T", "s">> @@ "U0446" :> <<"t", "s">> @@
    "U0427" :> <<"C", "h">> @@ "U0447" :> <<"c", "h">> @@
    "U0428" :> <<"S", "h">> @@ "U0448" :> <<"s", "h">> @@
    "U0429" :> <<"S", "h", "c", "h">> @@ "U0449" :> <<"s", "h", "c", "h">> @@
    "U042A" :> <<>> @@ "U044A" :> <<>> @@
    "U042B" :> <<"Y">> @@ "U044B" :> <<"y">> @@
    "U042C" :> <<>> @@ "U044C" :> <<>> @@
    "U042D" :> <<"E">> @@ "U044D" :> <<"e">> @@
    "U042E" :> <<"Y", "u">> @@ "U044E" :> <<"y", "u">> @@
    "U042F" :> <<"Y", "a">> @@ "U044F" :> <<"y", "a">> @@
    "U04D8" :> <<"A">> @@ "U04D9" :> <<"a">> @@
    "U04E8" :> <<"O">> @@ "U04E9" :> <<"o">>

NonAscii == DOMAIN CYRILLIC_MAP \cup {"U00E9", "U00A0"}

-----------------------------------------------------------------------------
(* Python string operations *)

RECURSIVE Flatten(_)
Flatten(ss) == IF ss = <<>> THEN <<>> ELSE Head(ss) \o Flatten(Tail(ss))

RECURSIVE LStrip(_, _)
LStrip(s, chars) ==
    IF s # <<>> /\ Head(s) \in chars THEN LStrip(Tail(s), chars) ELSE s

RECURSIVE RStrip(_, _)
RStrip(s, chars) ==
    IF s # <<>> /\ s[Len(s)] \in chars
    THEN RStrip(SubSeq(s, 1, Len(s) - 1), chars)
    ELSE s

(* s.strip(chars) *)
Strip(s, chars) == RStrip(LStrip(s, chars), chars)

(* s.replace(token, rep): leftmost non-overlapping occurrences *)
RECURSIVE Replace(_, _, _)
Replace(s, token, rep) ==
    IF Len(s) < Len(token) THEN s
    ELSE IF SubSeq(s, 1, Len(token)) = token
         THEN rep \o Replace(SubSeq(s, Len(token) + 1, Len(s)), token, rep)
         ELSE <<Head(s)>> \o Replace(Tail(s), token, rep)

(* s.split(sep) for a one-character separator: empty pieces are kept *)
RECURSIVE Split(_, _)
Split(s, sep) ==
    IF s = <<>> THEN << <<>> >>
    ELSE IF Head(s) = sep THEN << <<>> >> \o Split(Tail(s), sep)
    ELSE LET r == Split(Tail(s), sep)
         IN  << <<Head(s)>> \o Head(r) >> \o Tail(r)

(* str(n) for an integer n *)
RECURSIVE NatToStr(_)
NatToStr(n) ==
    IF n < 10 THEN <<DigitChars[n + 1]>>
    ELSE NatToStr(n \div 10) \o <<DigitChars[(n % 10) + 1]>>

IntToStr(n) == IF n < 0 THEN <<"-">> \o NatToStr(-n) ELSE NatToStr(n)

DigitValue(c) == CHOOSE d \in 0..9 : DigitChars[d + 1] = c

-----------------------------------------------------------------------------
(* JSON values of a source record's fields.  entry.get(key) gives None for  *)
(* an absent key.  A float carries its str() text in s and whether it is    *)
(* non-zero in n; a list or object carries its number of elements in n.     *)

JAbsent == [t |-> "absent", s |-> <<>>, n |-> 0]

JNull == [t |-> "null", s |-> <<>>, n |-> 0]

JStr(chars) == [t |-> "str", s |-> chars, n |-> 0]

JInt(i) == [t |-> "int", s |-> <<>>, n |-> i]

JFloat(text, nonzero) == [t |-> "float", s |-> text, n |-> nonzero]

JBool(b) == [t |-> "bool", s |-> <<>>, n |-> IF b THEN 1 ELSE 0]

JList(len) == [t |-> "list", s |-> <<>>, n |-> len]

JObject(len) == [t |-> "object", s |-> <<>>, n |-> len]

(* bool(v), as `or` and `not` test it *)
Truthy(v) ==
    CASE v.t \in {"absent", "null"} -> FALSE
      [] v.t = "str" -> v.s # <<>>
      [] OTHER -> v.n # 0

(* a or b *)
Or(a, b) == IF Truthy(a) THEN a ELSE b

(* str(v); the elements of a model list are the number 0, the keys of a     *)
(* model object are the string k                                            *)
PyStr(v) ==
    CASE v.t \in {"absent", "null"} -> <<"N", "o", "n", "e">>
      [] v.t \in {"str", "float"} -> v.s
      [] v.t = "int" -> IntToStr(v.n)
      [] v.t = "bool" -> IF v.n = 1 THEN <<"T", "r", "u", "e">>
                         ELSE <<"F", "a", "l", "s", "e">>
      [] v.t = "list" -> IF v.n = 0 THEN <<"[", "]">> ELSE <<"[", "0", "]">>
      [] v.t = "object" -> IF v.n = 0 THEN <<"{", "}">>
                           ELSE <<"{", "'", "k", "'", ":", " ", "0", "}">>

-----------------------------------------------------------------------------
(* The functions of convert_movies.py *)

transliterate(text) ==
    IF text = <<>> THEN <<>>
    ELSE Flatten([i \in 1..Len(text) |->
                    IF text[i] \in DOMAIN CYRILLIC_MAP
                    THEN CYRILLIC_MAP[text[i]]
                    ELSE <<text[i]>>])

(* unicodedata.normalize("NFKD", title).encode("ascii", "ignore").decode("ascii") *)
AsciiFold(title) ==
    Flatten([i \in 1..Len(title) |->
               IF title[i] \in DOMAIN NFKD_ASCII THEN NFKD_ASCII[title[i]]
               ELSE IF title[i] \in NonAscii THEN <<>>
               ELSE <<title[i]>>])

LowerCase(s) ==
    [i \in 1..Len(s) |-> IF s[i] \in DOMAIN ToLower THEN ToLower[s[i]] ELSE s[i]]

(* the class [a-z0-9] *)
SlugChars == Lower \cup Digits

RECURSIVE SkipNonSlug(_)
SkipNonSlug(s) ==
    IF s # <<>> /\ Head(s) \notin SlugChars THEN SkipNonSlug(Tail(s)) ELSE s

(* re.sub(r"[^a-z0-9]+", "-", s) *)
RECURSIVE SubNonSlugRuns(_)
SubNonSlugRuns(s) ==
    IF s = <<>> THEN <<>>
    ELSE IF Head(s) \in SlugChars THEN <<Head(s)>> \o SubNonSlugRuns(Tail(s))
    ELSE <<"-">> \o SubNonSlugRuns(SkipNonSlug(s))

FILM == <<"f", "i", "l", "m">>

(* mutant: the year is appended also when it is 0 *)
slugifyAlwaysYear(title, year) ==
    LET folded == Strip(SubNonSlugRuns(LowerCase(AsciiFold(title))), {"-"})
        ascii_title == IF folded = <<>> THEN FILM ELSE folded
    IN  ascii_title \o <<"-">> \o IntToStr(year)

slugify(title, year) ==
    LET folded == Strip(SubNonSlugRuns(LowerCase(AsciiFold(title))), {"-"})
        ascii_title == IF folded = <<>> THEN FILM ELSE folded
    IN  IF year # 0 THEN ascii_title \o <<"-">> \o IntToStr(year) ELSE ascii_title

(* whether int(s) accepts the string: surrounding whitespace, an optional   *)
(* sign, then digits with single underscores between digits                 *)
IsIntLiteral(s) ==
    LET t == Strip(s, PyWhitespace)
        body == IF t # <<>> /\ Head(t) \in {"+", "-"} THEN Tail(t) ELSE t
    IN  /\ body # <<>>
        /\ \A i \in 1..Len(body) :
              \/ body[i] \in Digits
              \/ /\ body[i] = "_"
                 /\ 1 < i /\ i < Len(body)
                 /\ body[i - 1] \in Digits /\ body[i + 1] \in Digits

RECURSIVE DigitsValue(_, _)
DigitsValue(body, acc) ==
    IF body = <<>> THEN acc
    ELSE IF Head(body) = "_" THEN DigitsValue(Tail(body), acc)
    ELSE DigitsValue(Tail(body), 10 * acc + DigitValue(Head(body)))

(* int(s) for a string it accepts *)
IntLiteralValue(s) ==
    LET t == Strip(s, PyWhitespace)
    IN  IF Head(t) = "-" THEN -DigitsValue(Tail(t), 0)
        ELSE IF Head(t) = "+" THEN DigitsValue(Tail(t), 0)
        ELSE DigitsValue(t, 0)

parse_int(value) ==
    LET s == PyStr(value)
    IN  IF IsIntLiteral(s) THEN IntLiteralValue(s) ELSE 0

(* the tuple the for loop of parse_directors runs over *)
DELIMITERS ==
    << <<" ", "&", " ">>, <<" ", "a", "n", "d", " ">>, <<";">>, <<"/">>, <<"|">> >>

RECURSIVE ReplaceTokens(_, _)
ReplaceTokens(cleaned, tokens) ==
    IF tokens = <<>> THEN cleaned
    ELSE ReplaceTokens(Replace(cleaned, Head(tokens), <<",">>), Tail(tokens))

(* mutant: periods are removed at the end of a piece only *)
ParseDirectorsTrailingPeriods(text, tokens) ==
    LET cleaned == ReplaceTokens(transliterate(text), tokens)
        pieces == Split(cleaned, ",")
        parts == [i \in 1..Len(pieces) |->
                    RStrip(LStrip(pieces[i], {" ", "\t", "\r", "\n"}), DirectorStripChars)]
    IN  SelectSeq(parts, LAMBDA part : part # <<>>)

(* parse_directors with the loop running over `tokens` *)
ParseDirectorsWith(text, tokens) ==
    LET cleaned == ReplaceTokens(transliterate(text), tokens)
        pieces == Split(cleaned, ",")
        parts == [i \in 1..Len(pieces) |-> Strip(pieces[i], DirectorStripChars)]
    IN  SelectSeq(parts, LAMBDA part : part # <<>>)

(* raw.translate raises AttributeError when raw is truthy and no string *)
ParseDirectorsRaises(raw) == Truthy(raw) /\ raw.t # "str"

(* mutant: the last delimiter, "|", is not replaced *)
parse_directors_without_pipe(raw) ==
    ParseDirectorsWith(Or(raw, JStr(<<>>)).s, SubSeq(DELIMITERS, 1, 4))

parse_directors(raw) ==
    ParseDirectorsWith(Or(raw, JStr(<<>>)).s, DELIMITERS)

-----------------------------------------------------------------------------
(* The main loop, lines 82-112 *)

(* mutant: originalName is trimmed before the choice, so a whitespace-only  *)
(* originalName falls back to name                                          *)
ChosenTitleTrimmedFirst(entry) ==
    LET first == IF entry.originalName.t = "str"
                 THEN JStr(Strip(entry.originalName.s, PyWhitespace))
                 ELSE entry.originalName
    IN  Or(Or(first, entry.name), JStr(<<>>))

(* entry.get("originalName") or entry.get("name") or "" *)
ChosenTitle(entry) == Or(Or(entry.originalName, entry.name), JStr(<<>>))

(* .strip() raises AttributeError when the chosen value is no string *)
TitleRaises(entry) == ChosenTitle(entry).t # "str"

Title(entry) == Strip(ChosenTitle(entry).s, PyWhitespace)

(* slug_counts.get(base_slug, 0) *)
Occurrence(counts, base_slug) ==
    IF base_slug \in DOMAIN counts THEN counts[base_slug] ELSE 0

(* slug_counts[base_slug] = occurrence + 1 *)
CountOccurrence(counts, base_slug) ==
    [b \in DOMAIN counts \cup {base_slug} |->
        IF b = base_slug THEN Occurrence(counts, base_slug) + 1 ELSE counts[b]]

(* mutant: the suffix is the occurrence, not occurrence + 1 *)
FinalSlugFromOccurrence(base_slug, occurrence) ==
    IF occurrence = 0 THEN base_slug
    ELSE base_slug \o <<"-">> \o IntToStr(occurrence)

(* base_slug if occurrence == 0 else f"{base_slug}-{occurrence + 1}" *)
FinalSlug(base_slug, occurrence) ==
    IF occurrence = 0 THEN base_slug
    ELSE base_slug \o <<"-">> \o IntToStr(occurrence + 1)

OutputRecord(entry, slug, title, release_year) ==
    [slug |-> slug,
     title |-> title,
     releaseYear |-> release_year,
     registryYear |-> parse_int(entry.yearAdded),
     directors |-> parse_directors(entry.director),
     cast |-> <<>>,
     runtimeMinutes |-> 0,
     genres |-> <<>>,
     logline |-> <<>>,
     summary |-> <<>>,
     whyImportant |-> <<>>,
     watchUrl |-> <<>>,
     image |-> <<>>]

-----------------------------------------------------------------------------
(* The source documents of the model *)

MaxRecords == 3

SeqsUpTo(S, n) == UNION {[1..k -> S] : k \in 0..n}

Entry(originalName, name, yearProduced, yearAdded, director) ==
    [originalName |-> originalName, name |-> name, yearProduced |-> yearProduced,
     yearAdded |-> yearAdded, director |-> director]

ECHO == <<"E", "c", "h", "o">>

ECHO_2019 == <<"E", "c", "h", "o", " ", "2", "0", "1", "9">>

Y2019 == JStr(<<"2", "0", "1", "9">>)

SourceRecords ==
    { Entry(JStr(ECHO), JAbsent, Y2019, JStr(<<"2", "0", "2", "0">>),
            JStr(<<"A", " ", "&", " ", "B", ".">>)),
      Entry(JStr(ECHO_2019), JAbsent, JStr(<<"2">>), JAbsent, JAbsent),
      Entry(JStr(ECHO), JNull, JStr(<<"-", "5">>), JInt(-1), JNull),
      Entry(JStr(<<" ", "\t">>), JStr(ECHO), Y2019, JAbsent, JAbsent),
      Entry(JAbsent, JStr(ECHO), JInt(2019), JFloat(<<"2", ".", "5">>, 1), JStr(<<>>)),
      Entry(JAbsent, JAbsent, Y2019, JAbsent, JStr(<<"A">>)),
      Entry(JStr(<<>>), JStr(<<" ", "E", "c", "h", "o", "\n">>),
            JStr(<<"a", "b", "c">>), JBool(TRUE), JList(0)),
      Entry(JStr(ECHO), JAbsent, Y2019, JAbsent, JInt(5)),
      Entry(JInt(5), JStr(ECHO), Y2019, JAbsent, JAbsent),
      Entry(JStr(<<"U042D", "U0445", "U043E">>), JAbsent, JAbsent, JAbsent,
            JStr(<<"U042F", "U043D", ";", ".", "B">>)),
      Entry(JNull, JStr(<<" ">>), JStr(<<"-", "5">>), JAbsent, JObject(1)),
      Entry(JInt(0), JStr(ECHO), JAbsent, JAbsent, JList(1)),
      Entry(JStr(<<"!", "!">>), JAbsent, JStr(<<"-", "5">>), JAbsent, JBool(FALSE)) }

-----------------------------------------------------------------------------
(* State: source is the parsed source document (line 10), idx the number of *)
(* entries the for loop has taken, movies and slug_counts the lists of      *)
(* lines 82-83; pc is "loop" while the loop runs, "raised" once an          *)
(* exception has ended the run, "done" once the target has been written.    *)
(* fn, arg, ret record one call of a function of the module.                *)

NoCounts == [b \in {} |-> 0]

Init ==
    /\ source \in SeqsUpTo(SourceRecords, MaxRecords)
    /\ idx = 0
    /\ movies = <<>>
    /\ slug_counts = NoCounts
    /\ pc = "loop"
    /\ fn = "none"
    /\ arg = <<>>
    /\ ret = <<>>

(* mutant: the slug is counted before the title is tested *)
SkipEntryAfterCounting ==
    /\ pc = "loop"
    /\ idx < Len(source)
    /\ LET entry == source[idx + 1]
       IN  /\ ~TitleRaises(entry)
           /\ Title(entry) = <<>>
           /\ slug_counts' =
                 CountOccurrence(slug_counts,
                                 slugify(Title(entry), parse_int(entry.yearProduced)))
    /\ idx' = idx + 1
    /\ UNCHANGED <<source, movies, pc, call_vars>>

(* lines 86-90: the title is empty, continue *)
SkipEntry ==
    /\ pc = "loop"
    /\ idx < Len(source)
    /\ LET entry == source[idx + 1]
       IN  /\ ~TitleRaises(entry)
           /\ Title(entry) = <<>>
    /\ idx' = idx + 1
    /\ UNCHANGED <<source, movies, slug_counts, pc, call_vars>>

(* lines 86-112: one output record is appended *)
AppendEntry ==
    /\ pc = "loop"
    /\ idx < Len(source)
    /\ LET entry == source[idx + 1]
       IN  /\ ~TitleRaises(entry)
           /\ Title(entry) # <<>>
           /\ ~ParseDirectorsRaises(entry.director)
           /\ LET title == Title(entry)
                  release_year == parse_int(entry.yearProduced)
                  base_slug == slugify(title, release_year)
                  occurrence == Occurrence(slug_counts, base_slug)
                  slug == FinalSlug(base_slug, occurrence)
              IN  /\ slug_counts' = CountOccurrence(slug_counts, base_slug)
                  /\ movies' = Append(movies, OutputRecord(entry, slug, title, release_year))
    /\ idx' = idx + 1
    /\ UNCHANGED <<source, pc, call_vars>>

(* line 86: .strip() on a value that is no string ends the run *)
RaiseOnTitle ==
    /\ pc = "loop"
    /\ idx < Len(source)
    /\ TitleRaises(source[idx + 1])
    /\ pc' = "raised"
    /\ UNCHANGED <<source, idx, movies, slug_counts, call_vars>>

(* line 102: parse_directors raises after line 93 has counted the slug *)
RaiseOnDirector ==
    /\ pc = "loop"
    /\ idx < Len(source)
    /\ LET entry == source[idx + 1]
       IN  /\ ~TitleRaises(entry)
           /\ Title(entry) # <<>>
           /\ ParseDirectorsRaises(entry.director)
           /\ slug_counts' =
                 CountOccurrence(slug_counts,
                                 slugify(Title(entry), parse_int(entry.yearProduced)))
    /\ pc' = "raised"
    /\ UNCHANGED <<source, idx, movies, call_vars>>

(* lines 115-116: the loop is over, the target document is written *)
WriteTarget ==
    /\ pc = "loop"
    /\ idx = Len(source)
    /\ pc' = "done"
    /\ UNCHANGED <<source, idx, movies, slug_counts, call_vars>>

Next == SkipEntry \/ AppendEntry \/ RaiseOnTitle \/ RaiseOnDirector \/ WriteTarget

Spec == Init /\ [][Next]_vars

-----------------------------------------------------------------------------
(* Properties of the main loop *)

Slugs == [k \in 1..Len(movies) |-> movies[k].slug]

(* C1: no two output records have the same final slug, also when a          *)
(* disambiguated slug {base}-{N} of one base slug equals the base slug of   *)
(* another record.                                                          *)
C1_SlugsUnique ==
    \A i, j \in 1..Len(movies) : i # j => movies[i].slug # movies[j].slug

(* the slugs the numbering rule gives a list of base slugs: the first       *)
(* record with a base slug gets it unmodified, the N-th (N >= 2) gets       *)
(* {base}-{N}                                                               *)
NumberedSlugs(bases) ==
    [k \in 1..Len(bases) |->
        LET N == Cardinality({j \in 1..k : bases[j] = bases[k]})
        IN  IF N = 1 THEN bases[k] ELSE bases[k] \o <<"-">> \o NatToStr(N)]

MovieBases == [k \in 1..Len(movies) |-> slugify(movies[k].title, movies[k].releaseYear)]

ECHO_2019_SLUG == <<"e", "c", "h", "o", "-", "2", "0", "1", "9">>

(* C2: the counter map starts empty, each processed record adds exactly one *)
(* to the counter of its base slug, the first record with a base slug gets  *)
(* it unmodified and the N-th gets {base}-{N}, in input order; two records  *)
(* Echo/2019 give echo-2019 then echo-2019-2, and -1 is never appended.     *)
C2_NumberingFollowsInputOrder ==
    /\ idx = 0 /\ pc = "loop" => slug_counts = NoCounts
    /\ Slugs = NumberedSlugs(MovieBases)
    /\ pc # "raised" =>
          /\ DOMAIN slug_counts = {MovieBases[k] : k \in 1..Len(movies)}
          /\ \A b \in DOMAIN slug_counts :
                slug_counts[b] = Cardinality({k \in 1..Len(movies) : MovieBases[k] = b})
    /\ \A k \in 1..Len(movies) : movies[k].slug # MovieBases[k] \o <<"-", "1">>
    /\ (/\ Len(movies) >= 2
        /\ \A k \in 1..2 : movies[k].title = ECHO /\ movies[k].releaseYear = 2019)
       => /\ movies[1].slug = ECHO_2019_SLUG
          /\ movies[2].slug = ECHO_2019_SLUG \o <<"-", "2">>

C2_Witness ==
    /\ Len(movies) = 3
    /\ \A k \in 1..3 : movies[k].title = ECHO /\ movies[k].releaseYear = 2019
    /\ movies[3].slug = ECHO_2019_SLUG \o <<"-", "3">>

(* a name field that is absent, null, empty or whitespace-only *)
Blank(v) ==
    \/ v.t \in {"absent", "null"}
    \/ v.t = "str" /\ \A i \in 1..Len(v.s) : v.s[i] \in PyWhitespace

NoTitle(entry) == Blank(entry.originalName) /\ Blank(entry.name)

Taken == SubSeq(source, 1, idx)

(* the taken records with those without a title removed, and of these the   *)
(* ones the loop gives an output record                                     *)
Remaining == SelectSeq(Taken, LAMBDA entry : ~NoTitle(entry))

WithTitle == SelectSeq(Remaining, LAMBDA entry : Title(entry) # <<>>)

(* the base slug of a source record that has a title *)
EntryBase(entry) == slugify(Title(entry), parse_int(entry.yearProduced))

(* C3: a record whose originalName and name are both absent, empty or       *)
(* whitespace-only appends no output record and leaves slug_counts and      *)
(* movies as they were, and the slugs of the output are those of the input  *)
(* list with the records without a title removed.                           *)
C3_SkippedRecordChangesNothing ==
    /\ [][(pc = "loop" /\ idx < Len(source) /\ NoTitle(source[idx + 1]))
            => (idx' = idx + 1 /\ pc' = "loop"
                /\ movies' = movies /\ slug_counts' = slug_counts)]_vars
    /\ [](pc = "done" =>
            Slugs = NumberedSlugs([k \in 1..Len(WithTitle) |-> EntryBase(WithTitle[k])]))

C3_Witness ==
    /\ pc = "done"
    /\ Len(source) = 3
    /\ NoTitle(source[2]) /\ ~NoTitle(source[1]) /\ source[3] = source[1]
    /\ Len(movies) = 2
    /\ movies[2].slug = ECHO_2019_SLUG \o <<"-", "2">>

IsSlugPattern(slug) ==
    /\ slug # <<>>
    /\ \A i \in 1..Len(slug) : slug[i] \in SlugChars \cup {"-"}
    /\ slug[1] # "-" /\ slug[Len(slug)] # "-"
    /\ \A i \in 1..(Len(slug) - 1) : ~(slug[i] = "-" /\ slug[i + 1] = "-")

(* C4: every final slug is non-empty, consists of lowercase ASCII letters,  *)
(* digits and single hyphens, and neither starts nor ends with a hyphen,    *)
(* for every title and every year parse_int returns.                        *)
C4_SlugMatchesPattern ==
    \A k \in 1..Len(movies) : IsSlugPattern(movies[k].slug)

(* C5: releaseYear and registryYear of every output record are non-negative *)
(* integers; parse_int gives 0 for an absent, null or unparseable value,    *)
(* 2005 for "2005", and never a value below 0.                              *)
C5_YearsNonNegative ==
    /\ parse_int(JAbsent) = 0 /\ parse_int(JNull) = 0
    /\ parse_int(JStr(<<"a", "b", "c">>)) = 0
    /\ parse_int(JStr(<<"2", "0", "0", "5">>)) = 2005
    /\ \A k \in 1..Len(movies) :
          movies[k].releaseYear >= 0 /\ movies[k].registryYear >= 0

(* C7: no record ends the run: every record, whatever the JSON types of its *)
(* fields, is appended or skipped and the loop goes on.                     *)
C7_NoRecordAborts == pc # "raised"

(* the title the claim gives a record whose name fields are strings, null   *)
(* or absent: name only when originalName is absent, null or empty          *)
NamesAreText(entry) ==
    /\ entry.originalName.t \in {"absent", "null", "str"}
    /\ entry.name.t \in {"absent", "null", "str"}

UntrimmedTitle(entry) ==
    IF entry.originalName.t \in {"absent", "null"} \/ entry.originalName.s = <<>>
    THEN entry.name.s
    ELSE entry.originalName.s

IsTrimmed(s) == s = <<>> \/ (Head(s) \notin PyWhitespace /\ s[Len(s)] \notin PyWhitespace)

RECURSIVE SumCounts(_, _)
SumCounts(counts, keys) ==
    IF keys = {} THEN 0
    ELSE LET b == CHOOSE x \in keys : TRUE
         IN  counts[b] + SumCounts(counts, keys \ {b})

-----------------------------------------------------------------------------
(* Calls of the functions on their own: one call of slugify or of            *)
(* parse_directors with arguments from bounded sets                          *)

MaxTitleLen == 3

MaxFragments == 4

MaxDelimiterFragments == 4

TitleChars == {"a", "B", "2", " ", "!", "-", "U00E9", "U042F"}

THE_MOVIE == <<"T", "h", "e", " ", "M", "o", "v", "i", "e", "!", "!">>

Titles == SeqsUpTo(TitleChars, MaxTitleLen) \cup {THE_MOVIE, ECHO, ECHO_2019}

Years == {0, 2, 2019, 2020, -5}

(* "Иван Петров & John Smith" *)
IVAN_AND_JOHN ==
    <<"U0418", "U0432", "U0430", "U043D", " ",
      "U041F", "U0435", "U0442", "U0440", "U043E", "U0432",
      " ", "&", " ", "J", "o", "h", "n", " ", "S", "m", "i", "t", "h">>

A_AMP_AND_B == <<"A", " ", "&", " ", "a", "n", "d", " ", "B">>

(* "A & B and C;D/E|F" *)
ALL_DELIMITERS ==
    <<"A", " ", "&", " ", "B", " ", "a", "n", "d", " ", "C", ";", "D", "/", "E", "|", "F">>

DirectorFragments ==
    {<<"A">>, <<" ">>, <<".">>, <<",">>, <<"&">>, <<"\t">>, <<"U042F">>, <<"U00A0">>}

DirectorTexts ==
    {Flatten(fs) : fs \in SeqsUpTo(DirectorFragments, MaxFragments)}
        \cup {IVAN_AND_JOHN, A_AMP_AND_B}

DelimiterFragments == {<<"A">>, <<" ">>, <<" ", "&">>, <<"a", "n", "d">>, <<";">>, <<"/">>}

DelimiterTexts ==
    {Flatten(fs) : fs \in SeqsUpTo(DelimiterFragments, MaxDelimiterFragments)}
        \cup {A_AMP_AND_B, ALL_DELIMITERS}

InitCall ==
    /\ source = <<>>
    /\ idx = 0
    /\ movies = <<>>
    /\ slug_counts = NoCounts
    /\ pc = "idle"
    /\ fn = "none"
    /\ arg = <<>>
    /\ ret = <<>>

CallSlugify ==
    /\ fn = "none"
    /\ \E title \in Titles, year \in Years :
          /\ arg' = <<title, year>>
          /\ ret' = slugify(title, year)
    /\ fn' = "slugify"
    /\ UNCHANGED pipeline_vars

CallParseDirectors ==
    /\ fn = "none"
    /\ \E text \in DirectorTexts :
          /\ arg' = text
          /\ ret' = parse_directors(JStr(text))
    /\ fn' = "parse_directors"
    /\ UNCHANGED pipeline_vars

NextCall == CallSlugify \/ CallParseDirectors

SpecCall == InitCall /\ [][NextCall]_vars

(* one call of parse_directors on a text made of delimiters *)
CallParseDirectorsOnDelimiters ==
    /\ fn = "none"
    /\ \E text \in DelimiterTexts :
          /\ arg' = text
          /\ ret' = parse_directors(JStr(text))
    /\ fn' = "parse_directors"
    /\ UNCHANGED pipeline_vars

SpecDelimiters == InitCall /\ [][CallParseDirectorsOnDelimiters]_vars

-----------------------------------------------------------------------------
(* Properties of the functions *)

(* the orders in which the five delimiters can be replaced *)
DelimiterOrders ==
    {[i \in 1..5 |-> DELIMITERS[p[i]]] :
        p \in {q \in [1..5 -> 1..5] : \A i, j \in 1..5 : i # j => q[i] # q[j]}}

(* C8: replacing the five delimiters in any order gives the list of names   *)
(* the order of the code gives, for every raw string.                       *)
C8_OrderIndependent ==
    fn = "parse_directors" =>
        \A tokens \in DelimiterOrders : ParseDirectorsWith(arg, tokens) = ret

Contains(s, sub) ==
    \E i \in 1..(Len(s) - Len(sub) + 1) : SubSeq(s, i, i + Len(sub) - 1) = sub

(* an occurrence of " & " and one of " and " share a space *)
DelimitersOverlap(text) ==
    \/ Contains(text, <<" ", "&", " ", "a", "n", "d", " ">>)
    \/ Contains(text, <<" ", "a", "n", "d", " ", "&", " ">>)

(* C8, amended: replacing the five delimiters in any order gives the list   *)
(* the order of the code gives when no occurrence of " & " shares a space   *)
(* with an occurrence of " and " in the transliterated string; where they   *)
(* do, the code's order decides: "A & and B" gives "A" and "and B".         *)
C8_OrderIndependentWithoutOverlap ==
    fn = "parse_directors" =>
        /\ ~DelimitersOverlap(transliterate(arg)) =>
              \A tokens \in DelimiterOrders : ParseDirectorsWith(arg, tokens) = ret
        /\ arg = A_AMP_AND_B => ret = << <<"A">>, <<"a", "n", "d", " ", "B">> >>

C8_Witness ==
    /\ fn = "parse_directors"
    /\ arg = ALL_DELIMITERS
    /\ ~DelimitersOverlap(transliterate(arg))
    /\ ret = << <<"A">>, <<"B">>, <<"C">>, <<"D">>, <<"E">>, <<"F">> >>

RECURSIVE Join(_, _)
Join(pieces, sep) ==
    IF pieces = <<>> THEN <<>>
    ELSE IF Len(pieces) = 1 THEN Head(pieces)
    ELSE Head(pieces) \o sep \o Join(Tail(pieces), sep)

(* the comma-separated pieces of the transliterated string with its         *)
(* delimiters replaced                                                      *)
CommaPieces(text) == Split(ReplaceTokens(transliterate(text), DELIMITERS), ",")

NonEmpty(ss) == SelectSeq(ss, LAMBDA s : s # <<>>)

IVAN_PETROV == <<"I", "v", "a", "n", " ", "P", "e", "t", "r", "o", "v">>

JOHN_SMITH == <<"J", "o", "h", "n", " ", "S", "m", "i", "t", "h">>

(* the whitespace characters the strip of parse_directors names *)
StripWhitespace == {" ", "\t", "\r", "\n"}

(* C9: parse_directors returns, in order, the comma-separated pieces with   *)
(* only their leading and trailing whitespace and their trailing periods    *)
(* removed (leading periods are kept), without the pieces that become       *)
(* empty; every name is non-empty and has no leading or trailing            *)
(* whitespace; "Иван Петров & John Smith" gives Ivan Petrov, John Smith.    *)
C9_TrailingPeriodsOnly ==
    fn = "parse_directors" =>
        LET pieces == CommaPieces(arg)
        IN  /\ ret = NonEmpty([i \in 1..Len(pieces) |->
                        RStrip(LStrip(pieces[i], StripWhitespace),
                               StripWhitespace \cup {"."})])
            /\ \A k \in 1..Len(ret) :
                  /\ ret[k] # <<>>
                  /\ Head(ret[k]) \notin StripWhitespace
                  /\ ret[k][Len(ret[k])] \notin StripWhitespace
            /\ arg = IVAN_AND_JOHN => ret = <<IVAN_PETROV, JOHN_SMITH>>

(* a piece without its leading and trailing characters from chars *)
Core(piece, chars) ==
    LET keep == {i \in 1..Len(piece) : piece[i] \notin chars}
    IN  IF keep = {} THEN <<>>
        ELSE SubSeq(piece, CHOOSE i \in keep : \A j \in keep : i <= j,
                           CHOOSE i \in keep : \A j \in keep : i >= j)

(* C9, amended: parse_directors returns, in order, the comma-separated      *)
(* pieces of the transliterated, delimiter-normalised string, each with its *)
(* leading and trailing spaces, tabs, carriage returns, line feeds and      *)
(* periods removed, without the pieces that become empty; every name is     *)
(* non-empty and neither starts nor ends with one of these five characters; *)
(* "Иван Петров & John Smith" gives Ivan Petrov, John Smith.                *)
C9_PiecesStrippedAtBothEnds ==
    fn = "parse_directors" =>
        LET pieces == CommaPieces(arg)
        IN  /\ Join(pieces, <<",">>) = ReplaceTokens(transliterate(arg), DELIMITERS)
            /\ \A i \in 1..Len(pieces) : ~Contains(pieces[i], <<",">>)
            /\ ret = NonEmpty([i \in 1..Len(pieces) |->
                        Core(pieces[i], StripWhitespace \cup {"."})])
            /\ \A k \in 1..Len(ret) :
                  /\ ret[k] # <<>>
                  /\ Head(ret[k]) \notin StripWhitespace \cup {"."}
                  /\ ret[k][Len(ret[k])] \notin StripWhitespace \cup {"."}
            /\ arg = IVAN_AND_JOHN => ret = <<IVAN_PETROV, JOHN_SMITH>>

C9_Witness ==
    /\ fn = "parse_directors"
    /\ arg = <<".", "A", ".", ",">>
    /\ ret = << <<"A">> >>

(* the maximal runs of characters of [a-z0-9] in s *)
RECURSIVE WordsOf(_)
WordsOf(s) ==
    IF s = <<>> THEN <<>>
    ELSE IF Head(s) \notin SlugChars THEN WordsOf(Tail(s))
    ELSE LET n == CHOOSE m \in 1..Len(s) :
                    /\ \A i \in 1..m : s[i] \in SlugChars
                    /\ m = Len(s) \/ s[m + 1] \notin SlugChars
         IN  <<SubSeq(s, 1, n)>> \o WordsOf(SubSeq(s, n + 1, Len(s)))

(* C6: slugify folds the title to ASCII, lowercases it, replaces every      *)
(* maximal run of characters outside [a-z0-9] by one hyphen and trims the   *)
(* hyphens, uses film when nothing is left, and appends -{year} if and only *)
(* if year is non-zero: slugify("The Movie!!", 2020) = the-movie-2020,      *)
(* slugify("The Movie!!", 0) = the-movie.                                   *)
C6_SlugifyResult ==
    fn = "slugify" =>
        LET title == arg[1]
            year == arg[2]
            words == WordsOf(LowerCase(AsciiFold(title)))
            base == IF words = <<>> THEN FILM ELSE Join(words, <<"-">>)
            the_movie == <<"t", "h", "e", "-", "m", "o", "v", "i", "e">>
        IN  /\ year = 0 => ret = base
            /\ year # 0 => ret = base \o <<"-">> \o IntToStr(year)
            /\ (\A i \in 1..Len(title) : title[i] \in {" ", "!", "-", "U042F"}) =>
                  ret \in {FILM, FILM \o <<"-">> \o IntToStr(year)}
            /\ title = THE_MOVIE /\ year = 2020 =>
                  ret = the_movie \o <<"-", "2", "0", "2", "0">>
            /\ title = THE_MOVIE /\ year = 0 => ret = the_movie

C6_Witness ==
    /\ fn = "slugify"
    /\ arg = <<THE_MOVIE, 2020>>
    /\ ret = <<"t", "h", "e", "-", "m", "o", "v", "i", "e", "-", "2", "0", "2", "0">>

====
